---------------------------- MODULE Spec2Model ----------------------------
(***************************************************************************)
(* HTMLCleaner of app/src/utils/html_cleaner.py.                           *)
(*                                                                         *)
(* A text is a sequence of Unicode code points (Python str).  The two      *)
(* entry points, clean and clean_simple, are compositions of regular       *)
(* expression passes; every pass is modelled by what the regular           *)
(* expression matches and replaces, character by character.                *)
(***************************************************************************)
EXTENDS Integers, Sequences, FiniteSets

(***************************************************************************)
(* Characters.  Texts of the model are written as tuples of one-character  *)
(* strings and turned into code points by S.                               *)
(***************************************************************************)
Printable ==
  <<" ","!","\"","#","$","%","&","'","(",")","*","+",",","-",".","/",
    "0","1","2","3","4","5","6","7","8","9",":",";","<","=",">","?","@",
    "A","B","C","D","E","F","G","H","I","J","K","L","M","N","O","P","Q",
    "R","S","T","U","V","W","X","Y","Z","[","\\","]","^","_","(grave)",
    "a","b","c","d","e","f","g","h","i","j","k","l","m","n","o","p","q",
    "r","s","t","u","v","w","x","y","z","{","|","}","~">>

\* ord(c) for the characters the model writes down: the line feed and
\* U+0020..U+007E (the grave accent, U+0060, is never written).
Ord(c) ==
  IF c = "\n" THEN 10
  ELSE 31 + (CHOOSE i \in 1..Len(Printable) : Printable[i] = c)

RECURSIVE S(_)
S(s) == IF s = <<>> THEN <<>> ELSE <<Ord(Head(s))>> \o S(Tail(s))

NL == Ord("\n")
SP == Ord(" ")
EQ == Ord("=")
PIPE == Ord("|")

\* The copyright glyph U+00A9 and the right single quote U+2019 (not in latin-1).
CopyrightSign == <<169>>
RightQuote == <<8217>>

\* Python's str whitespace: what \s matches in a str pattern and what
\* str.strip() removes.
IsSpace(c) ==
  \/ c \in 9..13
  \/ c \in 28..32
  \/ c \in {133, 160, 5760, 8232, 8233, 8239, 8287, 12288}
  \/ c \in 8192..8202

\* \d in a str pattern: the ASCII digits and the other Unicode decimal
\* digits (of which the model knows the Arabic-Indic block U+0660..U+0669).
IsDigit(c) == c \in 48..57 \/ c \in 1632..1641

\* [A-Za-z0-9]
IsAsciiAlnum(c) == c \in 48..57 \/ c \in 65..90 \/ c \in 97..122

\* re.IGNORECASE on the characters of the patterns: ASCII and Latin-1 letters.
Fold(c) ==
  IF c \in 65..90 THEN c + 32
  ELSE IF c \in 192..222 /\ c # 215 THEN c + 32
  ELSE c

\* text.split("\n"): the lines ^ and $ delimit under re.MULTILINE.
RECURSIVE SplitFrom(_, _, _)
SplitFrom(text, i, cur) ==
  IF i > Len(text) THEN <<cur>>
  ELSE IF text[i] = NL THEN <<cur>> \o SplitFrom(text, i + 1, <<>>)
  ELSE SplitFrom(text, i + 1, Append(cur, text[i]))

Lines(text) == SplitFrom(text, 1, <<>>)

RECURSIVE JoinLines(_)
JoinLines(ls) ==
  IF Len(ls) = 1 THEN ls[1] ELSE ls[1] \o <<NL>> \o JoinLines(Tail(ls))

IsRuleChar(c) == c = Ord("-") \/ c = Ord("=")

\* The character classes of the patterns: \s, [-=], \n and the space.
InClass(cls, c) ==
  IF cls = "space" THEN IsSpace(c)
  ELSE IF cls = "rule" THEN IsRuleChar(c)
  ELSE IF cls = "newline" THEN c = NL
  ELSE c = SP

\* The position after the longest run of characters of class cls from i on
\* (a greedy cls* or cls{n,}).
RECURSIVE RunEnd(_, _, _)
RunEnd(cls, text, i) ==
  IF i <= Len(text) /\ InClass(cls, text[i]) THEN RunEnd(cls, text, i + 1) ELSE i

\* \n{3,}
NewlineRunEnd(text, i) ==
  LET e == RunEnd("newline", text, i) IN IF e - i >= 3 THEN e ELSE 0

\* " {2,}"
SpaceRunEnd(text, i) ==
  LET e == RunEnd("blank", text, i) IN IF e - i >= 2 THEN e ELSE 0

\* \|\s*\|\s*\|
TripleCellEnd(text, i) ==
  IF text[i] # PIPE THEN 0
  ELSE LET j == RunEnd("space", text, i + 1)
       IN  IF j > Len(text) \/ text[j] # PIPE THEN 0
           ELSE LET k == RunEnd("space", text, j + 1)
                IN  IF k > Len(text) \/ text[k] # PIPE THEN 0 ELSE k + 1

\* \|\s*\|
DoubleCellEnd(text, i) ==
  IF text[i] # PIPE THEN 0
  ELSE LET j == RunEnd("space", text, i + 1)
       IN  IF j > Len(text) \/ text[j] # PIPE THEN 0 ELSE j + 1

\* \[\s*\]
EmptyBracketEnd(text, i) ==
  IF text[i] # Ord("[") THEN 0
  ELSE LET j == RunEnd("space", text, i + 1)
       IN  IF j > Len(text) \/ text[j] # Ord("]") THEN 0 ELSE j + 1

\* ^ and $ under re.MULTILINE, as positions of the text.
AtLineStart(text, i) == i = 1 \/ text[i - 1] = NL
AtLineEnd(text, i) == i = Len(text) + 1 \/ text[i] = NL

\* ^\s*[-=]{3,}\s*$ under re.MULTILINE.  \s also matches line feeds, so the
\* match may begin on blank lines before the rule and run over blank lines
\* after it; the trailing \s* gives back until $ matches.
HorizontalLineEnd(text, i) ==
  IF ~AtLineStart(text, i) THEN 0
  ELSE LET j == RunEnd("space", text, i)
           k == RunEnd("rule", text, j)
           q == RunEnd("space", text, k)
           ends == {p \in k..q : AtLineEnd(text, p)}
       IN  IF k - j < 3 \/ ends = {} THEN 0
           ELSE CHOOSE p \in ends : \A r \in ends : r <= p

\* The position after the match of a pattern that starts at position i of the
\* text, or 0 when the pattern does not match there.
MatchEnd(pattern, text, i) ==
  IF pattern = "triple cell" THEN TripleCellEnd(text, i)
  ELSE IF pattern = "double cell" THEN DoubleCellEnd(text, i)
  ELSE IF pattern = "empty bracket" THEN EmptyBracketEnd(text, i)
  ELSE IF pattern = "horizontal line" THEN HorizontalLineEnd(text, i)
  ELSE IF pattern = "newlines" THEN NewlineRunEnd(text, i)
  ELSE SpaceRunEnd(text, i)

(***************************************************************************)
(* re.sub(pattern, repl, text) for a pattern that matches no empty string: *)
(* scan from the left, replace each match, go on after it.                 *)
(***************************************************************************)
RECURSIVE ReSub(_, _, _, _)
ReSub(pattern, repl, text, i) ==
  IF i > Len(text) THEN <<>>
  ELSE LET e == MatchEnd(pattern, text, i)
       IN  IF e > i THEN repl \o ReSub(pattern, repl, text, e)
           ELSE <<text[i]>> \o ReSub(pattern, repl, text, i + 1)

(***************************************************************************)
(* _normalize_whitespace and str.strip.                                    *)
(***************************************************************************)
CollapseNewlines(text) == ReSub("newlines", <<NL, NL>>, text, 1)

CollapseSpaces(text) == ReSub("blanks", <<SP>>, text, 1)

\* A normalisation that forgets the pass over the spaces.
NormalizeNewlinesOnly(text) == CollapseNewlines(text)

NormalizeWhitespace(text) == CollapseSpaces(CollapseNewlines(text))

\* str.strip()
Strip(text) ==
  LET keep == {i \in 1..Len(text) : ~IsSpace(text[i])}
  IN  IF keep = {} THEN <<>>
      ELSE LET lo == CHOOSE i \in keep : \A j \in keep : i <= j
               hi == CHOOSE i \in keep : \A j \in keep : j <= i
           IN  SubSeq(text, lo, hi)

(***************************************************************************)
(* _remove_newsletter_artifacts: the table artifacts, the empty brackets   *)
(* and the horizontal lines.                                               *)
(***************************************************************************)
\* A table-artifact step that knows only the three-pipe form.
RemoveTripleCellsOnly(text) == ReSub("triple cell", <<>>, text, 1)

RemoveTableArtifacts(text) ==
  ReSub("double cell", <<>>, ReSub("triple cell", <<>>, text, 1), 1)

RemoveEmptyBrackets(text) == ReSub("empty bracket", <<>>, text, 1)

RemoveHorizontalLines(text) == ReSub("horizontal line", <<>>, text, 1)

(***************************************************************************)
(* NEWSLETTER_FILTER_PATTERNS.  A pattern is a sequence of elements: a     *)
(* literal character, \d, .* or $.                                         *)
(***************************************************************************)
RECURSIVE LitCodes(_)
LitCodes(cs) ==
  IF cs = <<>> THEN <<>>
  ELSE <<[kind |-> "lit", ch |-> Head(cs)]>> \o LitCodes(Tail(cs))

Lit(s) == LitCodes(S(s))
AnyStar == <<[kind |-> "any", ch |-> 0]>>
DigitClass == <<[kind |-> "digit", ch |-> 0]>>
EndOfLine == <<[kind |-> "eol", ch |-> 0]>>

NEWSLETTER_FILTER_PATTERNS ==
  << Lit(<<"u","n","s","u","b","s","c","r","i","b","e">>),
     Lit(<<"u","p","d","a","t","e">>) \o AnyStar
       \o Lit(<<"p","r","e","f","e","r","e","n","c","e","s">>),
     Lit(<<"m","a","n","a","g","e">>) \o AnyStar
       \o Lit(<<"p","r","e","f","e","r","e","n","c","e","s">>),
     Lit(<<"v","i","e","w">>) \o AnyStar \o Lit(<<"o","n","l","i","n","e">>),
     Lit(<<"v","i","e","w">>) \o AnyStar
       \o Lit(<<"b","r","o","w","s","e","r">>),
     Lit(<<"r","e","a","d">>) \o AnyStar \o Lit(<<"o","n","l","i","n","e">>),
     Lit(<<"f","o","l","l","o","w">>) \o AnyStar \o Lit(<<"o","n">>),
     Lit(<<"f","a","c","e","b","o","o","k">>) \o EndOfLine,
     Lit(<<"t","w","i","t","t","e","r">>) \o EndOfLine,
     Lit(<<"l","i","n","k","e","d","i","n">>) \o EndOfLine,
     Lit(<<"i","n","s","t","a","g","r","a","m">>) \o EndOfLine,
     Lit(<<"y","o","u","t","u","b","e">>) \o EndOfLine,
     Lit(<<"s","o","c","i","a","l"," ","m","e","d","i","a">>),
     DigitClass \o DigitClass \o DigitClass \o DigitClass \o AnyStar
       \o Lit(<<"L","L","C">>),
     Lit(<<"a","l","l"," ","r","i","g","h","t","s"," ",
           "r","e","s","e","r","v","e","d">>),
     Lit(<<"c","o","p","y","r","i","g","h","t">>),
     \* the last pattern of the source is the two characters U+00C2 U+00A9
     LitCodes(<<194, 169>>) >>

\* A literal of a pattern against a character of the text, case-sensitively.
LiteralMatchesExactly(p, c) == p = c

\* A literal of a pattern against a character of the text (re.IGNORECASE).
LiteralMatches(p, c) == Fold(p) = Fold(c)

\* $ taken for a position that always matches.
EndAnchorAnywhere(line, j) == TRUE

\* $ inside a line: only the end of the line.
EndAnchorMatches(line, j) == j = Len(line) + 1

\* Whether the elements pat[k..] match the line from position j on.
RECURSIVE MatchFrom(_, _, _, _)
MatchFrom(pat, k, line, j) ==
  IF k > Len(pat) THEN TRUE
  ELSE LET e == pat[k]
       IN  IF e.kind = "lit"
             THEN /\ j <= Len(line)
                  /\ LiteralMatches(e.ch, line[j])
                  /\ MatchFrom(pat, k + 1, line, j + 1)
           ELSE IF e.kind = "any"
             THEN \E j2 \in j..(Len(line) + 1) : MatchFrom(pat, k + 1, line, j2)
           ELSE IF e.kind = "eol"
             THEN EndAnchorMatches(line, j) /\ MatchFrom(pat, k + 1, line, j)
           ELSE /\ j <= Len(line)
                /\ IsDigit(line[j])
                /\ MatchFrom(pat, k + 1, line, j + 1)

\* rf"^.*{pattern}.*$"
WholeLine(pattern) == AnyStar \o pattern \o AnyStar \o EndOfLine

\* Whether the regular expression matches the line ("." matches anything
\* but the line feed, ^ and $ are the ends of the line).
LineMatches(pattern, line) == MatchFrom(WholeLine(pattern), 1, line, 1)

\* The substitution with count=1: only the first matching line goes.
RemoveFirstMatchingLine(pattern, text) ==
  LET ls == Lines(text)
      hit == {i \in 1..Len(ls) : LineMatches(pattern, ls[i])}
  IN  JoinLines([i \in 1..Len(ls) |->
                  IF i \in hit /\ \A h \in hit : i <= h THEN <<>> ELSE ls[i]])

\* re.sub(rf"^.*{pattern}.*$", "", text, flags=re.IGNORECASE | re.MULTILINE):
\* a match starts at a line start and, .* being greedy, runs to the end of
\* that line; the line feeds stay.
RemoveMatchingLines(pattern, text) ==
  LET ls == Lines(text)
      regex == WholeLine(pattern)
  IN  JoinLines([i \in 1..Len(ls) |->
                  IF MatchFrom(regex, 1, ls[i], 1) THEN <<>> ELSE ls[i]])

\* for pattern in self.NEWSLETTER_FILTER_PATTERNS: text = re.sub(...)
RECURSIVE FilterFrom(_, _)
FilterFrom(k, text) ==
  IF k > Len(NEWSLETTER_FILTER_PATTERNS) THEN text
  ELSE LET removed == RemoveMatchingLines(NEWSLETTER_FILTER_PATTERNS[k], text)
       IN  IF removed = text THEN FilterFrom(k + 1, text)
           ELSE FilterFrom(k + 1, removed)

RemoveFilteredLines(text) == FilterFrom(1, text)

\* The text after each statement of _remove_newsletter_artifacts.
ArtifactStages(text) ==
  LET tables == RemoveTableArtifacts(text)
      brackets == RemoveEmptyBrackets(tables)
      rules == RemoveHorizontalLines(brackets)
  IN  [tables |-> tables, brackets |-> brackets, rules |-> rules,
       filtered |-> RemoveFilteredLines(rules)]

(***************************************************************************)
(* _decode_quoted_printable.                                               *)
(***************************************************************************)
\* A detection that takes any "=" for an escape.
DetectAnyEquals(text) == \E i \in 1..Len(text) : text[i] = EQ

\* re.search(r"=\d{2}[A-Za-z0-9]", text)
DetectQuotedPrintable(text) ==
  \E i \in 1..(Len(text) - 3) :
     /\ text[i] = EQ
     /\ IsDigit(text[i + 1])
     /\ IsDigit(text[i + 2])
     /\ IsAsciiAlnum(text[i + 3])

\* text.encode("latin-1") raises UnicodeEncodeError on a character above U+00FF.
Latin1Encodable(text) == \A i \in 1..Len(text) : text[i] <= 255

IsHex(b) == b \in 48..57 \/ b \in 65..70 \/ b \in 97..102

HexValue(b) ==
  IF b \in 48..57 THEN b - 48 ELSE IF b \in 65..70 THEN b - 55 ELSE b - 87

\* The position after the first line feed at or after i (soft line break
\* written "=\r...\n"), or past the end.
RECURSIVE AfterLineFeed(_, _)
AfterLineFeed(data, i) ==
  IF i > Len(data) THEN i
  ELSE IF data[i] = NL THEN i + 1
  ELSE AfterLineFeed(data, i + 1)

\* quopri.decodestring(data), that is binascii.a2b_qp(data, header=False).
RECURSIVE QuopriDecode(_, _)
QuopriDecode(data, i) ==
  IF i > Len(data) THEN <<>>
  ELSE IF data[i] # EQ THEN <<data[i]>> \o QuopriDecode(data, i + 1)
  ELSE IF i + 1 > Len(data) THEN <<>>
  ELSE IF data[i + 1] = NL \/ data[i + 1] = 13
    THEN QuopriDecode(data, AfterLineFeed(data, i + 1))
  ELSE IF data[i + 1] = EQ THEN <<EQ>> \o QuopriDecode(data, i + 2)
  ELSE IF i + 2 <= Len(data) /\ IsHex(data[i + 1]) /\ IsHex(data[i + 2])
    THEN <<16 * HexValue(data[i + 1]) + HexValue(data[i + 2])>>
           \o QuopriDecode(data, i + 3)
  ELSE <<EQ>> \o QuopriDecode(data, i + 1)

IsContinuation(b) == b \in 128..191

\* The second byte a UTF-8 lead byte allows.
SecondByteOk(lead, b) ==
  IF lead = 224 THEN b \in 160..191
  ELSE IF lead = 237 THEN b \in 128..159
  ELSE IF lead = 240 THEN b \in 144..191
  ELSE IF lead = 244 THEN b \in 128..143
  ELSE IsContinuation(b)

\* bytes.decode("utf-8", errors="ignore"): an ill-formed sequence is dropped
\* (the lead byte and the continuation bytes that were well-formed so far)
\* and decoding goes on with the next byte.
RECURSIVE Utf8DecodeIgnore(_, _)
Utf8DecodeIgnore(b, i) ==
  IF i > Len(b) THEN <<>>
  ELSE LET n == Len(b)
           c == b[i]
       IN  IF c < 128 THEN <<c>> \o Utf8DecodeIgnore(b, i + 1)
           ELSE IF c \in 194..223 THEN
             IF i + 1 <= n /\ IsContinuation(b[i + 1])
               THEN <<(c - 192) * 64 + (b[i + 1] - 128)>>
                      \o Utf8DecodeIgnore(b, i + 2)
               ELSE Utf8DecodeIgnore(b, i + 1)
           ELSE IF c \in 224..239 THEN
             IF ~(i + 1 <= n /\ SecondByteOk(c, b[i + 1]))
               THEN Utf8DecodeIgnore(b, i + 1)
             ELSE IF ~(i + 2 <= n /\ IsContinuation(b[i + 2]))
               THEN Utf8DecodeIgnore(b, i + 2)
             ELSE <<(c - 224) * 4096 + (b[i + 1] - 128) * 64 + (b[i + 2] - 128)>>
                    \o Utf8DecodeIgnore(b, i + 3)
           ELSE IF c \in 240..244 THEN
             IF ~(i + 1 <= n /\ SecondByteOk(c, b[i + 1]))
               THEN Utf8DecodeIgnore(b, i + 1)
             ELSE IF ~(i + 2 <= n /\ IsContinuation(b[i + 2]))
               THEN Utf8DecodeIgnore(b, i + 2)
             ELSE IF ~(i + 3 <= n /\ IsContinuation(b[i + 3]))
               THEN Utf8DecodeIgnore(b, i + 3)
             ELSE <<(c - 240) * 262144 + (b[i + 1] - 128) * 4096
                      + (b[i + 2] - 128) * 64 + (b[i + 3] - 128)>>
                    \o Utf8DecodeIgnore(b, i + 4)
           ELSE Utf8DecodeIgnore(b, i + 1)

\* Whether old stands in text at position i.
OccursAt(old, text, i) ==
  /\ i + Len(old) - 1 <= Len(text)
  /\ \A k \in 1..Len(old) : text[i + k - 1] = old[k]

\* str.replace(old, new)
RECURSIVE Replace(_, _, _, _)
Replace(text, old, new, i) ==
  IF i > Len(text) THEN <<>>
  ELSE IF OccursAt(old, text, i)
    THEN new \o Replace(text, old, new, i + Len(old))
  ELSE <<text[i]>> \o Replace(text, old, new, i + 1)

\* The literal substitutions after the decode.
CleanUpArtifacts(decoded) ==
  LET t1 == Replace(decoded, S(<<"=","3","D">>), <<>>, 1)
      t2 == Replace(t1, S(<<"=","2","C">>), S(<<",">>), 1)
      t3 == Replace(t2, S(<<"=","E","2","=","8","0","=","9","9">>), S(<<"'">>), 1)
      t4 == Replace(t3, S(<<"=","E","2","=","8","0","=","9","C">>), S(<<"\"">>), 1)
      t5 == Replace(t4, S(<<"=","E","2","=","8","0","=","9","D">>), S(<<"\"">>), 1)
  IN  Replace(t5, S(<<"=","0","A">>), <<NL>>, 1)

\* An except branch that still applies the substitutions to the original.
FallbackCleaned(text) == CleanUpArtifacts(text)

\* except Exception: return text
DecodeFallback(text) == text

\* The result of _decode_quoted_printable with what happened on the way:
\* whether the detection matched and whether the try block raised.
DecodeQuotedPrintable(text) ==
  IF ~DetectQuotedPrintable(text)
    THEN [text |-> text, detected |-> FALSE, raised |-> FALSE]
  ELSE IF ~Latin1Encodable(text)
    THEN [text |-> DecodeFallback(text), detected |-> TRUE, raised |-> TRUE]
  ELSE [text |-> CleanUpArtifacts(Utf8DecodeIgnore(QuopriDecode(text, 1), 1)),
        detected |-> TRUE, raised |-> FALSE]

(***************************************************************************)
(* The inputs of the model.  A text is built from at most a bounded number *)
(* of pieces.                                                              *)
(***************************************************************************)
MaxConvertedPieces == 3
MaxSimplePieces == 4

RECURSIVE TextsUpTo(_, _)
TextsUpTo(pieces, n) ==
  IF n = 0 THEN {<<>>}
  ELSE LET shorter == TextsUpTo(pieces, n - 1)
       IN  shorter \cup {t \o w : t \in shorter, w \in pieces}

\* Pieces of a rendering by the converter: words, blanks, line breaks, table
\* cell separators, brackets, a rule, and lines of a newsletter footer.
ConvertedPieces ==
  { S(<<"A","c","m","e">>), S(<<" ">>),
    S(<<"\n">>), S(<<"\n","\n","\n">>),
    S(<<"|">>), S(<<"[","]">>), S(<<"-","-","-">>),
    S(<<"U","n","s","u","b","s","c","r","i","b","e">>),
    S(<<"T","w","i","t","t","e","r">>),
    CopyrightSign }

\* Pieces of a plain-text mail: a word, blanks, line breaks, "=" alone, the
\* escapes =20, =E9 and =3D, and a character outside latin-1.
SimplePieces ==
  { S(<<"C","a","f">>), S(<<" ">>), S(<<"\n">>), S(<<"\n","\n","\n">>),
    S(<<"=">>), S(<<"=","2","0">>), S(<<"=","E","9">>), S(<<"=","3","D">>),
    RightQuote }

ConvertedTexts == TextsUpTo(ConvertedPieces, MaxConvertedPieces)
SimpleTexts == TextsUpTo(SimplePieces, MaxSimplePieces)

\* What clean is called with: nothing, or a document.
HtmlInputs == {<<>>, S(<<"<","p",">">>)}

(***************************************************************************)
(* One call of an entry point on an HTMLCleaner.                           *)
(*   op, input  the entry point called and its argument                    *)
(*   converted  clean: what self._converter.handle returned                *)
(*   stage      clean: the text after each statement of                    *)
(*              _remove_newsletter_artifacts                               *)
(*   qp         clean_simple: what _decode_quoted_printable returned       *)
(*   result     the value returned                                         *)
(***************************************************************************)
VARIABLES pc, op, input, converted, stage, qp, result

vars == <<pc, op, input, converted, stage, qp, result>>

NoStages == ArtifactStages(<<>>)
NoDecode == [text |-> <<>>, detected |-> FALSE, raised |-> FALSE]

Init ==
  /\ pc = "call"
  /\ \/ op = "clean" /\ input \in HtmlInputs
     \/ op = "clean_simple" /\ input \in SimpleTexts
  /\ converted = <<>>
  /\ stage = NoStages
  /\ qp = NoDecode
  /\ result = <<>>

\* HTMLCleaner.clean.  The converter is the html2text library: what it
\* renders is not modelled, handle may return any text.
Clean ==
  /\ pc = "call"
  /\ op = "clean"
  /\ IF input = <<>>
       THEN /\ converted' = <<>>
            /\ stage' = NoStages
            /\ result' = <<>>
       ELSE \E text \in ConvertedTexts :
              LET stages == ArtifactStages(text)
              IN  /\ converted' = text
                  /\ stage' = stages
                  /\ result' = Strip(NormalizeWhitespace(stages.filtered))
  /\ pc' = "done"
  /\ UNCHANGED <<op, input, qp>>

\* HTMLCleaner.clean_simple
CleanSimple ==
  /\ pc = "call"
  /\ op = "clean_simple"
  /\ IF input = <<>>
       THEN /\ qp' = NoDecode
            /\ result' = <<>>
       ELSE LET decoded == DecodeQuotedPrintable(input)
            IN  /\ qp' = decoded
                /\ result' = Strip(NormalizeWhitespace(decoded.text))
  /\ pc' = "done"
  /\ UNCHANGED <<op, input, converted, stage>>

Next == Clean \/ CleanSimple

Spec == Init /\ [][Next]_vars

(***************************************************************************)
(* Properties.                                                             *)
(***************************************************************************)
Returned(entry) == pc = "done" /\ op = entry /\ input # <<>>

\* Whether word occurs in text, letter case aside.
ContainsFolded(text, word) ==
  \E i \in 1..(Len(text) - Len(word) + 1) :
     \A k \in 1..Len(word) : Fold(text[i + k - 1]) = Fold(word[k])

\* Whether text ends with word, letter case aside.
EndsWithFolded(text, word) ==
  /\ Len(word) <= Len(text)
  /\ \A k \in 1..Len(word) :
        Fold(text[Len(text) - Len(word) + k]) = Fold(word[k])

Contains(text, c) == \E i \in 1..Len(text) : text[i] = c

\* Whether text holds n consecutive characters c.
HasRun(text, c, n) ==
  \E i \in 1..(Len(text) - n + 1) : \A k \in 0..(n - 1) : text[i + k] = c

\* Two "|" with nothing but whitespace between them.
HasEmptyCell(text) ==
  \E i \in 1..Len(text) : \E j \in (i + 1)..Len(text) :
     /\ text[i] = PIPE
     /\ text[j] = PIPE
     /\ \A k \in (i + 1)..(j - 1) : IsSpace(text[k])

\* "=" followed by two hexadecimal or alphanumeric characters.
HasEscapeSignature(text) ==
  \E i \in 1..(Len(text) - 2) :
     text[i] = EQ /\ IsAsciiAlnum(text[i + 1]) /\ IsAsciiAlnum(text[i + 2])

\* The characters of a text that are not whitespace, in order.
NonSpace(text) == SelectSeq(text, LAMBDA c : ~IsSpace(c))

PatternIndexes == 1..Len(NEWSLETTER_FILTER_PATTERNS)

MatchesNoPatternBut(line, skip) ==
  \A k \in PatternIndexes \ skip : ~LineMatches(NEWSLETTER_FILTER_PATTERNS[k], line)

MatchesNoPattern(line) == MatchesNoPatternBut(line, {})

UnsubscribeWord == S(<<"u","n","s","u","b","s","c","r","i","b","e">>)

\* The bare social-network names, each with the place of its pattern in
\* NEWSLETTER_FILTER_PATTERNS.
SocialNames ==
  { [name |-> S(<<"f","a","c","e","b","o","o","k">>), at |-> 8],
    [name |-> S(<<"t","w","i","t","t","e","r">>), at |-> 9],
    [name |-> S(<<"l","i","n","k","e","d","i","n">>), at |-> 10],
    [name |-> S(<<"i","n","s","t","a","g","r","a","m">>), at |-> 11],
    [name |-> S(<<"y","o","u","t","u","b","e">>), at |-> 12] }

\* The lines the pattern loop of _remove_newsletter_artifacts starts from and
\* the lines it ends with.
LinesBefore == Lines(stage.rules)
LinesAfter == Lines(stage.filtered)

\* C1: whenever the text holds an escaped byte, "=" followed by two
\* hexadecimal or alphanumeric characters, the detection of
\* _decode_quoted_printable succeeds and clean_simple returns the decoded
\* text.
C1_EscapeTriggersDecoding ==
  (Returned("clean_simple") /\ HasEscapeSignature(input))
    => /\ qp.detected
       /\ ~qp.raised
            => /\ qp.text = CleanUpArtifacts(Utf8DecodeIgnore(QuopriDecode(input, 1), 1))
               /\ result = Strip(NormalizeWhitespace(qp.text))

\* C2: when the decoding is triggered and a step of it raises, clean_simple
\* returns the original text, whitespace-normalized and trimmed, with none
\* of the substitutions applied.
C2_DecodeFailureReturnsOriginal ==
  (Returned("clean_simple") /\ qp.raised)
    => /\ qp.detected
       /\ qp.text = input
       /\ result = Strip(NormalizeWhitespace(input))

C2_Witness ==
  /\ Returned("clean_simple")
  /\ qp.raised
  /\ \E i \in 1..Len(input) : OccursAt(S(<<"=","3","D">>), input, i)
  /\ \E i \in 1..Len(result) : OccursAt(S(<<"=","3","D">>), result, i)

\* C4: in clean, every line that contains "unsubscribe" in any letter case
\* is removed entirely by the pattern loop, no text returned holds the word,
\* and the loop leaves the lines that match no pattern as they were.
C4_UnsubscribeLinesRemoved ==
  Returned("clean")
    => /\ Len(LinesAfter) = Len(LinesBefore)
       /\ \A i \in 1..Len(LinesBefore) :
            /\ ContainsFolded(LinesBefore[i], UnsubscribeWord)
                 => LinesAfter[i] = <<>>
            /\ MatchesNoPattern(LinesBefore[i])
                 => LinesAfter[i] = LinesBefore[i]
       /\ (\E i \in 1..Len(Lines(converted)) :
             ContainsFolded(Lines(converted)[i], UnsubscribeWord))
            => \E i \in 1..Len(LinesBefore) :
                 ContainsFolded(LinesBefore[i], UnsubscribeWord)
       /\ ~ContainsFolded(result, UnsubscribeWord)

C4_Witness ==
  /\ Returned("clean")
  /\ \E i \in 1..Len(LinesBefore) :
       /\ ContainsFolded(LinesBefore[i], UnsubscribeWord)
       /\ LinesBefore[i] # UnsubscribeWord
       /\ LinesAfter[i] = <<>>
  /\ result # <<>>

\* C5: in clean, every line that contains the copyright glyph U+00A9 is
\* removed entirely.
C5_GlyphLinesRemoved ==
  Returned("clean")
    => /\ \A i \in 1..Len(LinesBefore) :
            Contains(LinesBefore[i], CopyrightSign[1]) => LinesAfter[i] = <<>>
       /\ ~Contains(result, CopyrightSign[1])

\* C6: the social-network patterns are end-anchored: a line that ends with
\* the bare name, in any case, is removed entirely; a line in which the name
\* occurs only before the end is not matched by that pattern, and stays as
\* it is unless another pattern matches it.
C6_SocialNamesEndAnchored ==
  Returned("clean")
    => \A i \in 1..Len(LinesBefore) : \A n \in SocialNames :
         LET line == LinesBefore[i]
         IN  /\ EndsWithFolded(line, n.name) => LinesAfter[i] = <<>>
             /\ (ContainsFolded(line, n.name) /\ ~EndsWithFolded(line, n.name))
                  => /\ ~LineMatches(NEWSLETTER_FILTER_PATTERNS[n.at], line)
                     /\ MatchesNoPatternBut(line, {n.at})
                          => LinesAfter[i] = line

C6_Witness ==
  /\ Returned("clean")
  /\ \E i \in 1..Len(LinesBefore) : \E n \in SocialNames :
       /\ EndsWithFolded(LinesBefore[i], n.name)
       /\ LinesBefore[i] # n.name
       /\ LinesAfter[i] = <<>>
  /\ result # <<>>

\* C7: the text clean or clean_simple returns holds no run of three line
\* feeds and no run of two spaces.
C7_NoWhitespaceRuns ==
  pc = "done" => ~HasRun(result, NL, 3) /\ ~HasRun(result, SP, 2)

C7_Witness ==
  /\ Returned("clean")
  /\ HasRun(converted, NL, 3)
  /\ HasRun(result, NL, 2)

\* C8: on a non-empty text without an escaped-byte signature clean_simple
\* decodes and substitutes nothing: it returns the input whitespace-normalized
\* and trimmed, every other character unchanged and in place.
C8_NoSignaturePassesThrough ==
  (Returned("clean_simple") /\ ~HasEscapeSignature(input))
    => /\ qp.text = input
       /\ result = Strip(NormalizeWhitespace(input))
       /\ NonSpace(result) = NonSpace(input)

C8_Witness ==
  /\ Returned("clean_simple")
  /\ ~HasEscapeSignature(input)
  /\ Contains(input, EQ)
  /\ Contains(result, EQ)
  /\ result # input

\* C9 as claimed: the text clean returns holds no two "|" separated only by
\* whitespace, also when a later removal brings the pipes together.
C9_NoEmptyCellInOutput ==
  Returned("clean") => ~HasEmptyCell(result)

\* C9 amended: the text holds no two "|" separated only by whitespace right
\* after the two table-artifact substitutions; pipes that a later step brings
\* together stay.
C9_NoEmptyCellAfterTableStep ==
  Returned("clean") => ~HasEmptyCell(stage.tables)

C9_Witness ==
  /\ Returned("clean")
  /\ HasEmptyCell(converted)
  /\ ~HasEmptyCell(result)
  /\ result # <<>>

\* C10 as claimed: no line of the text clean returns matches a pattern of
\* NEWSLETTER_FILTER_PATTERNS.
C10_OutputMatchesNoPattern ==
  Returned("clean")
    => \A i \in 1..Len(Lines(result)) : MatchesNoPattern(Lines(result)[i])

\* C10 amended: no line of the text _remove_newsletter_artifacts returns
\* matches a pattern, and the pattern loop applied to it again changes
\* nothing; the normalization and the trim that follow can make a line match.
C10_FilteredMatchesNoPattern ==
  Returned("clean")
    => /\ \A i \in 1..Len(LinesAfter) : MatchesNoPattern(LinesAfter[i])
       /\ RemoveFilteredLines(stage.filtered) = stage.filtered

C10_Witness ==
  /\ Returned("clean")
  /\ \E i \in 1..Len(LinesBefore) : ~MatchesNoPattern(LinesBefore[i])
  /\ \E i \in 1..Len(LinesAfter) : LinesAfter[i] # <<>>

=============================================================================
